---- MODULE Spec2Model ----
(***************************************************************************)
(* Model of the FEVM fan curve daemon, src/userspace/fevm-fan-curve.py.   *)
(*                                                                         *)
(* Temperatures are kept in fixed point: the float t (degrees Celsius) of  *)
(* the program is the integer 1000*t (millidegrees), the unit of the       *)
(* temp*_input files.  Duties are integers (percent).                      *)
(***************************************************************************)
EXTENDS Integers, Sequences, FiniteSets, TLC

(* ------------------------------------------------------------------ *)
(* Bounds of the model.                                                *)
(* ------------------------------------------------------------------ *)

\* Longest generated list of sensor names handed to resolve_hwmons.
MaxNames == 3

\* Most temp*_input files of one source in a call of max_temp_in_hwmons.
MaxInputs == 2

\* The integers handed to clamp_duty are -MaxClampAbs .. MaxClampAbs.
MaxClampAbs == 4

\* Longest generated raw curve handed to parse_curve.
MaxCurveLen == 3

\* The generated temperatures are 40.0, 42.5, ... : 40000 + 2500*k, k <= MaxTempIdx.
MaxTempIdx == 3

(* ------------------------------------------------------------------ *)
(* Values.                                                             *)
(* ------------------------------------------------------------------ *)

\* Results that are not values: a raised exception, a call not made yet.
Returned(v) == [tag |-> "return", val |-> v]
Raised(e) == [tag |-> "raise", exc |-> e]
NotCalled == [tag |-> "none"]
ValueError == Raised("ValueError")
RuntimeError == Raised("RuntimeError")

TempGrid == {40000 + 2500 * k : k \in 0..MaxTempIdx}

\* Temperatures of the documented examples: 30, 47.5, 85, 90 degrees.
ExampleTemps == {30000, 47500, 85000, 90000}

\* The float nan, which TOML can spell and float() keeps; no temperature
\* reaches this integer.
NaN == -999999999

\* The comparisons of floats: every comparison with nan is false.
FLe(a, b) == a # NaN /\ b # NaN /\ a <= b
FLt(a, b) == a # NaN /\ b # NaN /\ a < b
FGe(a, b) == FLe(b, a)

\* A raw duty of the configuration file is a TOML number, kept in tenths of a
\* percent: 335 is 33.5.
RawDuties == {200, 335, 1000}

\* A raw point [temp_c, duty] of the configuration file.
RawPoints == {<<t, d>> : t \in TempGrid \cup {NaN}, d \in RawDuties}

RECURSIVE SeqsUpTo(_, _)
SeqsUpTo(S, n) ==
    IF n = 0 THEN {<<>>}
    ELSE LET shorter == SeqsUpTo(S, n - 1)
         IN shorter \cup {Append(s, x) : s \in {q \in shorter : Len(q) = n - 1}, x \in S}

\* src DEFAULT_CONFIG cpu_curve and mem_curve, as raw [temp_c, duty] lists.
DefaultCpuRaw ==
    << <<40000, 200>>, <<55000, 350>>, <<65000, 550>>, <<75000, 750>>, <<85000, 1000>> >>
DefaultMemRaw ==
    << <<35000, 200>>, <<50000, 400>>, <<60000, 600>>, <<70000, 800>>, <<80000, 1000>> >>

\* The rejected examples [(50,10),(50,20)] and [(60,10),(50,20)].
ExampleRaws ==
    { DefaultCpuRaw, DefaultMemRaw,
      << <<50000, 100>>, <<50000, 200>> >>,
      << <<60000, 100>>, <<50000, 200>> >> }

RawCurves == SeqsUpTo(RawPoints, MaxCurveLen) \cup ExampleRaws

(* ------------------------------------------------------------------ *)
(* Pure functions.                                                     *)
(* ------------------------------------------------------------------ *)

\* int(x) of a number given in tenths: truncation towards zero.
IntOfTenths(x) == IF x >= 0 THEN x \div 10 ELSE -((-x) \div 10)

\* float(x) of a temperature: exact in the fixed-point representation, nan for nan.
FloatOfMilli(x) == x

\* parse_curve, lines 45-50: every entry is a pair, and the converted points.
WellFormed(raw) == \A i \in 1..Len(raw) : Len(raw[i]) = 2

ConvertPoints(raw) ==
    [i \in 1..Len(raw) |-> <<FloatOfMilli(raw[i][1]), IntOfTenths(raw[i][2])>>]

\* parse_curve, lines 55-59: no temperature is <= its predecessor.
StrictlyIncreasing(points) ==
    \A i \in 1..(Len(points) - 1) : ~FLe(points[i + 1][1], points[i][1])

parse_curve(raw) ==
    IF ~WellFormed(raw) THEN ValueError
    ELSE LET points == ConvertPoints(raw)
         IN IF Len(points) = 0 THEN ValueError
            ELSE IF ~StrictlyIncreasing(points) THEN ValueError
            ELSE Returned(points)

\* round() as if a tie went upwards (away from zero for a positive value).
RoundHalfUp(n, d) ==
    LET q == n \div d
        r == n % d
    IN IF 2 * r < d THEN q ELSE q + 1

\* Python 3 round(n/d) for d > 0: to the nearest integer, a tie to the even one.
RoundHalfEven(n, d) ==
    LET q == n \div d
        r == n % d
    IN IF 2 * r < d THEN q
       ELSE IF 2 * r > d THEN q + 1
       ELSE IF q % 2 = 0 THEN q ELSE q + 1

\* lerp_curve, lines 167-170: the first segment that brackets temp_c, 0 if none.
FirstSegment(temp_c, curve) ==
    LET segs == {i \in 1..(Len(curve) - 1) :
                    FLe(curve[i][1], temp_c) /\ FLe(temp_c, curve[i + 1][1])}
    IN IF segs = {} THEN 0 ELSE CHOOSE i \in segs : \A j \in segs : i <= j

\* int(round(d0 + ratio * (d1 - d0))) with ratio = (temp_c - t0) / (t1 - t0).
Interpolate(temp_c, p0, p1) ==
    RoundHalfEven(p0[2] * (p1[1] - p0[1]) + (temp_c - p0[1]) * (p1[2] - p0[2]),
                  p1[1] - p0[1])

lerp_curve(temp_c, curve) ==
    IF FLe(temp_c, curve[1][1]) THEN curve[1][2]
    ELSE IF FGe(temp_c, curve[Len(curve)][1]) THEN curve[Len(curve)][2]
    ELSE LET i == FirstSegment(temp_c, curve)
         IN IF i = 0 THEN curve[Len(curve)][2]
            ELSE Interpolate(temp_c, curve[i], curve[i + 1])

\* lerp_curve ends at line 172: neither line 163 nor 165 returned and the scan
\* found no segment.
FallbackReached(temp_c, curve) ==
    /\ ~FLe(temp_c, curve[1][1])
    /\ ~FGe(temp_c, curve[Len(curve)][1])
    /\ FirstSegment(temp_c, curve) = 0

\* clamp_duty, line 176: max(min_duty, min(max_duty, duty)).
Min2(a, b) == IF a <= b THEN a ELSE b
Max2(a, b) == IF a >= b THEN a ELSE b
clamp_dutyMutNoUpper(duty, min_duty, max_duty) == Max2(min_duty, duty)

clamp_duty(duty, min_duty, max_duty) == Max2(min_duty, Min2(max_duty, duty))

\* write_duty, lines 180-182: the text written to the actuator path.
write_dutyMutNoClamp(duty, min_duty, max_duty) == duty

write_duty(duty, min_duty, max_duty) == clamp_duty(duty, min_duty, max_duty)

(* ------------------------------------------------------------------ *)
(* The hardware monitoring sources.                                    *)
(* ------------------------------------------------------------------ *)

\* /sys/class/hwmon/hwmon*, in the order glob lists them.
Hwmons == <<1, 2>>

\* What a source's name file holds; NoNameFile: it cannot be opened.
NoNameFile == "<FileNotFoundError>"
SensorNames == {"k10temp", "spd5118"}
NameFiles == [1..Len(Hwmons) -> SensorNames \cup {NoNameFile}]

\* What a temp*_input file holds: millidegrees as decimal text, or text that
\* int() rejects (an unreadable file is skipped the same way).
Readings == {42500, 90000}
InputFiles == [tag : {"int"}, val : Readings] \cup {[tag |-> "bad", val |-> 0]}

\* The temp*_input files of every source, in glob's order, as one read of the
\* daemon finds them: none, or one.
Snapshots == [1..Len(Hwmons) -> SeqsUpTo(InputFiles, 1)]

\* find_hwmons_by_name, lines 120-129.
RECURSIVE FindFrom(_, _, _)
FindFrom(i, name, names) ==
    IF i > Len(Hwmons) THEN <<>>
    ELSE IF names[i] = name THEN <<Hwmons[i]>> \o FindFrom(i + 1, name, names)
    ELSE FindFrom(i + 1, name, names)

find_hwmons_by_name(name, names) == FindFrom(1, name, names)

\* resolve_hwmons, lines 132-140: dedup keeps the first occurrence.
InSeq(x, s) == \E i \in 1..Len(s) : s[i] = x

\* The loop of lines 136-139 without the test of line 137.
AppendNewMutNoDedup(dedup, found) == dedup \o found

RECURSIVE AppendNew(_, _)
AppendNew(dedup, found) ==
    IF found = <<>> THEN dedup
    ELSE AppendNew(IF InSeq(Head(found), dedup) THEN dedup ELSE Append(dedup, Head(found)),
                   Tail(found))

RECURSIVE ResolveFrom(_, _, _, _)
ResolveFrom(k, dedup, sensor_names, names) ==
    IF k > Len(sensor_names) THEN dedup
    ELSE ResolveFrom(k + 1,
                     AppendNew(dedup, find_hwmons_by_name(sensor_names[k], names)),
                     sensor_names, names)

resolve_hwmons(sensor_names, names) == ResolveFrom(1, <<>>, sensor_names, names)

\* read_temp_millic, lines 143-145: int(text) / 1000.0, an exception on bad text.
\* In fixed point the quotient is the millidegree count itself.
read_temp_millic(file) == IF file.tag = "int" THEN Returned(file.val) ELSE ValueError

\* max_temp_in_hwmons, lines 148-158.
TempsOfHwmon(files) ==
    {read_temp_millic(files[j]).val :
        j \in {k \in 1..Len(files) : read_temp_millic(files[k]).tag = "return"}}

TempsOf(hwmon_paths, snap) ==
    UNION {TempsOfHwmon(snap[hwmon_paths[i]]) : i \in 1..Len(hwmon_paths)}

\* min() in the place of max() at line 158.
SetMaxMutLowest(S) == CHOOSE x \in S : \A y \in S : x <= y

SetMax(S) == CHOOSE x \in S : \A y \in S : y <= x

max_temp_in_hwmons(hwmon_paths, snap) ==
    LET temps == TempsOf(hwmon_paths, snap)
    IN IF temps = {} THEN RuntimeError ELSE Returned(SetMax(temps))

(* ------------------------------------------------------------------ *)
(* The configuration.                                                  *)
(* ------------------------------------------------------------------ *)

\* DEFAULT_CONFIG, lines 20-32.
DefaultMinDuty == 20
DefaultMaxDuty == 100
DefaultFailsafeDuty == 70
DefaultCpuCurve ==
    << <<40000, 20>>, <<55000, 35>>, <<65000, 55>>, <<75000, 75>>, <<85000, 100>> >>
DefaultMemCurve ==
    << <<35000, 20>>, <<50000, 40>>, <<60000, 60>>, <<70000, 80>>, <<80000, 100>> >>

\* A key of the TOML file: absent, or present with a value.
Absent == <<>>
Present(v) == <<v>>
Get(key, default) == IF key = Absent THEN default ELSE key[1]

\* [general]: the defaults; bounds that cut the curve and lie below a failsafe
\* duty of 70; the same with a failsafe duty below them; min_duty above max_duty.
GeneralSections ==
    { [min_duty |-> Absent, max_duty |-> Absent, failsafe_duty |-> Absent],
      [min_duty |-> Present(30), max_duty |-> Present(60), failsafe_duty |-> Absent],
      [min_duty |-> Present(30), max_duty |-> Present(60), failsafe_duty |-> Present(10)],
      [min_duty |-> Present(60), max_duty |-> Present(30), failsafe_duty |-> Absent] }

SensorSections ==
    [cpu_names : {Absent}, mem_names : {Absent},
     mem_fallback_to_cpu : {Absent, Present(FALSE)}]

\* [curves]: valid curves, and the shapes parse_curve rejects.
CpuCurveKeys ==
    { Absent,
      Present(<< <<40000, 200>>, <<45000, 335>> >>),
      Present(<<>>),
      Present(<< <<50000, 100>>, <<50000, 200>> >>),
      Present(<< <<60000, 100>>, <<50000, 200>> >>),
      Present(<< <<40000, 200>>, <<45000, 335>>, <<42500, 1000>> >>),
      Present(<< <<40000, 200>>, <<45000>> >>) }

MemCurveKeys ==
    { Absent,
      Present(<< <<NaN, 200>>, <<45000, 300>>, <<95000, 500>> >>),
      Present(<< <<45000, 200>>, <<45000, 330>> >>) }

CurveSections == [cpu : CpuCurveKeys, mem : MemCurveKeys]

\* The configuration file: missing, unreadable as TOML, or its three tables.
ConfigFiles ==
    { [exists |-> FALSE], [exists |-> TRUE, parses |-> FALSE] }
    \cup [exists : {TRUE}, parses : {TRUE}, general : GeneralSections,
          sensors : SensorSections, curves : CurveSections]

\* load_config, lines 64-117.
DefaultCfg ==
    [ min_duty |-> DefaultMinDuty, max_duty |-> DefaultMaxDuty,
      failsafe_duty |-> DefaultFailsafeDuty,
      cpu_sensor_names |-> <<"k10temp">>, mem_sensor_names |-> <<"spd5118">>,
      mem_fallback_to_cpu |-> TRUE,
      cpu_curve |-> DefaultCpuCurve, mem_curve |-> DefaultMemCurve ]

load_config(file) ==
    IF ~file.exists THEN Returned(DefaultCfg)
    ELSE IF ~file.parses THEN Raised("TOMLDecodeError")
    ELSE LET cpu == IF file.curves.cpu = Absent THEN Returned(DefaultCpuCurve)
                    ELSE parse_curve(file.curves.cpu[1])
             mem == IF file.curves.mem = Absent THEN Returned(DefaultMemCurve)
                    ELSE parse_curve(file.curves.mem[1])
         IN IF cpu.tag = "raise" THEN cpu
            ELSE IF mem.tag = "raise" THEN mem
            ELSE Returned(
                [ min_duty |-> Get(file.general.min_duty, DefaultMinDuty),
                  max_duty |-> Get(file.general.max_duty, DefaultMaxDuty),
                  failsafe_duty |-> Get(file.general.failsafe_duty, DefaultFailsafeDuty),
                  cpu_sensor_names |-> Get(file.sensors.cpu_names, <<"k10temp">>),
                  mem_sensor_names |-> Get(file.sensors.mem_names, <<"spd5118">>),
                  mem_fallback_to_cpu |-> Get(file.sensors.mem_fallback_to_cpu, TRUE),
                  cpu_curve |-> cpu.val, mem_curve |-> mem.val ])

(* ------------------------------------------------------------------ *)
(* State.                                                              *)
(* ------------------------------------------------------------------ *)

VARIABLES
    fn_raw,      \* parse_curve's argument
    fn_curve,    \* parse_curve's result: a curve, ValueError, or NotCalled
    fn_temp,     \* lerp_curve's temperature argument
    fn_duty,     \* lerp_curve's result, or NotCalled
    fn_args,     \* the arguments of a call of one of the other functions
    fn_result,   \* that call's result, or NotCalled
    toml,        \* the configuration file
    name_files,  \* the name file of every hardware monitoring source
    present,     \* the sources that are there now: one that went away has no inputs
    RUNNING,     \* the module's RUNNING flag (RunState)
    pc,          \* the statement of main() the process is at
    exit_code,   \* <<>> while the process runs, then <<status>>
    cfg,         \* main's cfg, once load_config has returned
    cpu_hwmons,  \* main's locals of the same names; <<>> is unassigned
    mem_hwmons,
    cpu_t,
    mem_t,
    cpu_duty,
    mem_duty,
    fan1,        \* what the actuator paths hold: <<>> before the first write
    fan2,
    log,         \* the actuator writes of the current tick, in order
    fault,       \* the statement of the try block that raised in this tick
    fs_fault,    \* the failsafe write that raised in this tick
    had_failsafe \* an earlier tick, or this one, took the failsafe branch

fnvars == <<fn_raw, fn_curve, fn_temp, fn_duty, fn_args, fn_result>>
envvars == <<toml, name_files, present>>
locals == <<cfg, cpu_hwmons, mem_hwmons, cpu_t, mem_t, cpu_duty, mem_duty>>
fans == <<fan1, fan2, log>>
tickvars == <<fault, fs_fault, had_failsafe>>
procvars == <<RUNNING, pc, exit_code, locals, fans, tickvars>>
vars == <<fnvars, envvars, procvars>>

(* ------------------------------------------------------------------ *)
(* The daemon: main(), lines 185-255.                                  *)
(* ------------------------------------------------------------------ *)

\* The process as it starts: RUNNING = True (line 34), nothing assigned.
ProcInit ==
    /\ RUNNING = TRUE
    /\ pc = "install"
    /\ exit_code = <<>>
    /\ cfg = <<>>
    /\ cpu_hwmons = <<>> /\ mem_hwmons = <<>>
    /\ cpu_t = <<>> /\ mem_t = <<>>
    /\ cpu_duty = <<>> /\ mem_duty = <<>>
    /\ fan1 = <<>> /\ fan2 = <<>>
    /\ log = <<>>
    /\ fault = "none" /\ fs_fault = "none"
    /\ had_failsafe = FALSE

FnIdle ==
    /\ fn_raw = <<>> /\ fn_temp = 0
    /\ fn_curve = NotCalled /\ fn_duty = NotCalled
    /\ fn_args = <<>> /\ fn_result = NotCalled

\* Every source is there when the process starts.
AllPresent == present = [p \in 1..Len(Hwmons) |-> TRUE]

\* What one read of the daemon finds: the inputs of the sources that are there.
Visible(snap) == \A p \in 1..Len(Hwmons) : ~present[p] => snap[p] = <<>>

\* The machine of the defaults: hwmon 1 is the CPU sensor, hwmon 2 the memory's.
TypicalNames == [i \in 1..Len(Hwmons) |-> IF i = 1 THEN "k10temp" ELSE "spd5118"]

\* A configuration file that sets no duty and no curve.
PlainFile(file) ==
    file.exists /\ file.parses =>
        /\ file.general.min_duty = Absent /\ file.general.max_duty = Absent
        /\ file.general.failsafe_duty = Absent
        /\ file.curves.cpu = Absent /\ file.curves.mem = Absent

\* Every configuration file on the typical machine, and every machine under
\* the files that leave duties and curves at their defaults.
Init ==
    /\ toml \in ConfigFiles
    /\ name_files \in NameFiles
    /\ name_files = TypicalNames \/ PlainFile(toml)
    /\ AllPresent
    /\ ProcInit
    /\ FnIdle

\* raise SystemExit(message), or an exception main() does not catch: status 1.
Exit(status) ==
    /\ pc' = "exited"
    /\ exit_code' = <<status>>

\* Lines 196-197: signal.signal(SIGTERM / SIGINT, _sigterm_handler).
InstallHandlers ==
    /\ pc = "install"
    /\ pc' = "load_config"
    /\ UNCHANGED <<fnvars, envvars, RUNNING, exit_code, locals, fans, tickvars>>

\* _sigterm_handler, lines 37-40, run between two statements of main().
Signal ==
    /\ pc \notin {"install", "exited"}
    /\ RUNNING' = FALSE
    /\ UNCHANGED <<fnvars, envvars, pc, exit_code, locals, fans, tickvars>>

\* Line 199: cfg = load_config(args.config); its exception ends the process.
LoadConfig ==
    /\ pc = "load_config"
    /\ LET r == load_config(toml)
       IN IF r.tag = "raise"
          THEN Exit(1) /\ UNCHANGED cfg
          ELSE /\ cfg' = r.val
               /\ pc' = "resolve"
               /\ UNCHANGED exit_code
    /\ UNCHANGED <<fnvars, envvars, RUNNING, cpu_hwmons, mem_hwmons, cpu_t, mem_t,
                   cpu_duty, mem_duty, fans, tickvars>>

\* Lines 210-221: both groups are resolved, then the fallback policy.
FallbackMutNoCheck(cpu, mem, fallback) == Returned(IF mem = <<>> THEN cpu ELSE mem)

Fallback(cpu, mem, fallback) ==
    IF cpu = <<>> THEN Raised("SystemExit")
    ELSE IF mem # <<>> THEN Returned(mem)
    ELSE IF fallback THEN Returned(cpu)
    ELSE Raised("SystemExit")

Resolve ==
    /\ pc = "resolve"
    /\ LET cpu == resolve_hwmons(cfg.cpu_sensor_names, name_files)
           mem == resolve_hwmons(cfg.mem_sensor_names, name_files)
           r == Fallback(cpu, mem, cfg.mem_fallback_to_cpu)
       IN /\ cpu_hwmons' = cpu
          /\ IF r.tag = "raise"
             THEN Exit(1) /\ mem_hwmons' = mem
             ELSE /\ mem_hwmons' = r.val
                  /\ pc' = "while"
                  /\ UNCHANGED exit_code
    /\ UNCHANGED <<fnvars, envvars, RUNNING, cfg, cpu_t, mem_t, cpu_duty, mem_duty,
                   fans, tickvars>>

\* Line 226: while RUNNING.  A true test begins a tick; a false one leaves the
\* loop, and lines 254-255 return 0.
LoopCheckMutIgnoreFlag ==
    /\ pc = "while"
    /\ pc' = "read_cpu"
    /\ log' = <<>>
    /\ fault' = "none" /\ fs_fault' = "none"
    /\ UNCHANGED <<exit_code, had_failsafe>>
    /\ UNCHANGED <<fnvars, envvars, RUNNING, locals, fan1, fan2>>

\* A loop that tests RUNNING after its body: the first tick runs unconditionally.
LoopCheckMutDoWhile ==
    /\ pc = "while"
    /\ IF RUNNING \/ (cpu_t = <<>> /\ ~had_failsafe)
       THEN /\ pc' = "read_cpu"
            /\ log' = <<>>
            /\ fault' = "none" /\ fs_fault' = "none"
            /\ UNCHANGED <<exit_code, had_failsafe>>
       ELSE /\ Exit(0)
            /\ UNCHANGED <<log, tickvars>>
    /\ UNCHANGED <<fnvars, envvars, RUNNING, locals, fan1, fan2>>

LoopCheck ==
    /\ pc = "while"
    /\ IF RUNNING
       THEN /\ pc' = "read_cpu"
            /\ log' = <<>>
            /\ fault' = "none" /\ fs_fault' = "none"
            /\ UNCHANGED <<exit_code, had_failsafe>>
       ELSE /\ Exit(0)
            /\ UNCHANGED <<log, tickvars>>
    /\ UNCHANGED <<fnvars, envvars, RUNNING, locals, fan1, fan2>>

\* except Exception (line 244): the rest of the try block is skipped and the
\* failsafe writes follow.
ExceptMutOnlyLog(stmt) ==
    /\ fault' = stmt
    /\ had_failsafe' = TRUE
    /\ pc' = "sleep"
    /\ UNCHANGED fs_fault

\* A handler that leaves fan1 alone when its normal write had succeeded.
ExceptMutSkipFan1(stmt) ==
    /\ fault' = stmt
    /\ had_failsafe' = TRUE
    /\ pc' = (IF stmt = "write_fan2" THEN "failsafe_fan2" ELSE "failsafe_fan1")
    /\ UNCHANGED fs_fault

Except(stmt) ==
    /\ fault' = stmt
    /\ had_failsafe' = TRUE
    /\ pc' = "failsafe_fan1"
    /\ UNCHANGED fs_fault

\* except Exception (lines 249-250) of the inner try: logged, and on to line 252.
InnerExceptMutPropagate(stmt) ==
    /\ fs_fault' = stmt
    /\ Exit(1)

InnerExcept(stmt) ==
    /\ fs_fault' = stmt
    /\ pc' = "sleep"
    /\ UNCHANGED exit_code

\* Line 228: cpu_t = max_temp_in_hwmons(cpu_hwmons).
ReadCpu ==
    /\ pc = "read_cpu"
    /\ \E snap \in Snapshots :
         LET r == max_temp_in_hwmons(cpu_hwmons, snap)
         IN /\ Visible(snap)
            /\ IF r.tag = "raise"
               THEN Except("read_cpu") /\ UNCHANGED cpu_t
               ELSE /\ cpu_t' = <<r.val>>
                    /\ pc' = "read_mem"
                    /\ UNCHANGED tickvars
    /\ UNCHANGED <<fnvars, envvars, RUNNING, exit_code, cfg, cpu_hwmons, mem_hwmons,
                   mem_t, cpu_duty, mem_duty, fans>>

\* Line 229: mem_t = max_temp_in_hwmons(mem_hwmons).
ReadMem ==
    /\ pc = "read_mem"
    /\ \E snap \in Snapshots :
         LET r == max_temp_in_hwmons(mem_hwmons, snap)
         IN /\ Visible(snap)
            /\ IF r.tag = "raise"
               THEN Except("read_mem") /\ UNCHANGED mem_t
               ELSE /\ mem_t' = <<r.val>>
                    /\ pc' = "lerp"
                    /\ UNCHANGED tickvars
    /\ UNCHANGED <<fnvars, envvars, RUNNING, exit_code, cfg, cpu_hwmons, mem_hwmons,
                   cpu_t, cpu_duty, mem_duty, fans>>

\* Lines 231-232: the two curve evaluations.
LerpMutEscalate ==
    /\ pc = "lerp"
    /\ cpu_duty' = <<IF had_failsafe THEN cfg.failsafe_duty
                      ELSE lerp_curve(cpu_t[1], cfg.cpu_curve)>>
    /\ mem_duty' = <<IF had_failsafe THEN cfg.failsafe_duty
                      ELSE lerp_curve(mem_t[1], cfg.mem_curve)>>
    /\ pc' = "write_fan1"
    /\ UNCHANGED <<fnvars, envvars, RUNNING, exit_code, cfg, cpu_hwmons, mem_hwmons,
                   cpu_t, mem_t, fans, tickvars>>

Lerp ==
    /\ pc = "lerp"
    /\ cpu_duty' = <<lerp_curve(cpu_t[1], cfg.cpu_curve)>>
    /\ mem_duty' = <<lerp_curve(mem_t[1], cfg.mem_curve)>>
    /\ pc' = "write_fan1"
    /\ UNCHANGED <<fnvars, envvars, RUNNING, exit_code, cfg, cpu_hwmons, mem_hwmons,
                   cpu_t, mem_t, fans, tickvars>>

\* One entry of the tick's log of actuator writes.
Entry(fan, duty, path) == [fan |-> fan, duty |-> duty, path |-> path]

\* A write of fan1 whose exception is swallowed: line 235 runs all the same.
WriteFan1MutCarryOn ==
    /\ pc = "write_fan1"
    /\ \E ok \in BOOLEAN :
         /\ IF ok
            THEN LET text == write_duty(cpu_duty[1], cfg.min_duty, cfg.max_duty)
                 IN fan1' = <<text>> /\ log' = Append(log, Entry(1, text, "normal"))
            ELSE UNCHANGED <<fan1, log>>
         /\ pc' = "write_fan2"
         /\ UNCHANGED tickvars
    /\ UNCHANGED <<fnvars, envvars, RUNNING, exit_code, locals, fan2>>

\* Line 234: write_duty(fan1_path, cpu_duty, min_duty, max_duty).
WriteFan1 ==
    /\ pc = "write_fan1"
    /\ \E ok \in BOOLEAN :
         IF ok
         THEN LET text == write_duty(cpu_duty[1], cfg.min_duty, cfg.max_duty)
              IN /\ fan1' = <<text>>
                 /\ log' = Append(log, Entry(1, text, "normal"))
                 /\ pc' = "write_fan2"
                 /\ UNCHANGED tickvars
         ELSE Except("write_fan1") /\ UNCHANGED <<fan1, log>>
    /\ UNCHANGED <<fnvars, envvars, RUNNING, exit_code, locals, fan2>>

\* Line 235: write_duty(fan2_path, mem_duty, min_duty, max_duty); the debug
\* line after it changes nothing.
WriteFan2 ==
    /\ pc = "write_fan2"
    /\ \E ok \in BOOLEAN :
         IF ok
         THEN LET text == write_duty(mem_duty[1], cfg.min_duty, cfg.max_duty)
              IN /\ fan2' = <<text>>
                 /\ log' = Append(log, Entry(2, text, "normal"))
                 /\ pc' = "sleep"
                 /\ UNCHANGED tickvars
         ELSE Except("write_fan2") /\ UNCHANGED <<fan2, log>>
    /\ UNCHANGED <<fnvars, envvars, RUNNING, exit_code, locals, fan1>>

\* Line 247: write_duty(fan1_path, failsafe_duty, ...) in the inner try; its
\* exception skips line 248.
FailsafeFan1 ==
    /\ pc = "failsafe_fan1"
    /\ \E ok \in BOOLEAN :
         IF ok
         THEN LET text == write_duty(cfg.failsafe_duty, cfg.min_duty, cfg.max_duty)
              IN /\ fan1' = <<text>>
                 /\ log' = Append(log, Entry(1, text, "failsafe"))
                 /\ pc' = "failsafe_fan2"
                 /\ UNCHANGED <<fs_fault, exit_code>>
         ELSE InnerExcept("failsafe_fan1") /\ UNCHANGED <<fan1, log>>
    /\ UNCHANGED <<fnvars, envvars, RUNNING, locals, fan2, fault, had_failsafe>>

\* Line 248: write_duty(fan2_path, failsafe_duty, ...).
FailsafeFan2 ==
    /\ pc = "failsafe_fan2"
    /\ \E ok \in BOOLEAN :
         IF ok
         THEN LET text == write_duty(cfg.failsafe_duty, cfg.min_duty, cfg.max_duty)
              IN /\ fan2' = <<text>>
                 /\ log' = Append(log, Entry(2, text, "failsafe"))
                 /\ pc' = "sleep"
                 /\ UNCHANGED <<fs_fault, exit_code>>
         ELSE InnerExcept("failsafe_fan2") /\ UNCHANGED <<fan2, log>>
    /\ UNCHANGED <<fnvars, envvars, RUNNING, locals, fan1, fault, had_failsafe>>

\* A sleep after which the groups are enumerated anew: the sources that went
\* away are dropped from the CPU group.
SleepMutRediscover ==
    /\ pc = "sleep"
    /\ pc' = "while"
    /\ cpu_hwmons' = (IF \E i \in 1..Len(cpu_hwmons) : present[cpu_hwmons[i]]
                      THEN SelectSeq(cpu_hwmons, LAMBDA h : present[h])
                      ELSE cpu_hwmons)
    /\ UNCHANGED <<fnvars, envvars, RUNNING, exit_code, cfg, mem_hwmons, cpu_t, mem_t,
                   cpu_duty, mem_duty, fans, tickvars>>

\* Line 252: time.sleep(poll_sec), for a poll_sec the call accepts; a signal
\* handler that returns does not cut it short.
Sleep ==
    /\ pc = "sleep"
    /\ pc' = "while"
    /\ UNCHANGED <<fnvars, envvars, RUNNING, exit_code, locals, fans, tickvars>>

\* The statements of main(); Signal is the environment's step.
Daemon ==
    \/ InstallHandlers
    \/ LoadConfig
    \/ Resolve
    \/ LoopCheck
    \/ ReadCpu
    \/ ReadMem
    \/ Lerp
    \/ WriteFan1
    \/ WriteFan2
    \/ FailsafeFan1
    \/ FailsafeFan2
    \/ Sleep

\* A source goes away or comes back while the loop runs, on the machine that
\* has no configuration file.
Hotplug ==
    /\ pc \in {"while", "read_cpu", "read_mem", "lerp", "write_fan1", "write_fan2",
               "failsafe_fan1", "failsafe_fan2", "sleep"}
    /\ ~toml.exists
    /\ \E p \in 1..Len(Hwmons) : present' = [present EXCEPT ![p] = ~present[p]]
    /\ UNCHANGED <<fnvars, toml, name_files, procvars>>

Next == Daemon \/ Signal \/ Hotplug

Spec == Init /\ [][Next]_vars

\* The interpreter runs the next statement of main() as long as there is one.
FairSpec == Spec /\ WF_vars(Daemon)

(* ------------------------------------------------------------------ *)
(* Properties of the daemon.                                           *)
(* ------------------------------------------------------------------ *)

\* The statements of one tick, and of the loop.
TickPcs == {"read_cpu", "read_mem", "lerp", "write_fan1", "write_fan2",
            "failsafe_fan1", "failsafe_fan2"}
LoopPcs == TickPcs \cup {"while", "sleep"}

\* clamp(failsafe_duty, min_duty, max_duty) of the loaded configuration.
FailsafeText == clamp_duty(cfg.failsafe_duty, cfg.min_duty, cfg.max_duty)

ReadFaults == {"read_cpu", "read_mem"}

\* C1: in a tick in which a temperature read raised, every value written to an
\* actuator is clamp(failsafe_duty, min_duty, max_duty); when no actuator write
\* raises, the tick ends with exactly that value written to fan1 and then to
\* fan2; and the end of such a tick leads to a further tick unless RUNNING has
\* become false.
C1_ReadFailureWritesFailsafe ==
    /\ [](fault \in ReadFaults =>
            /\ \A i \in 1..Len(log) :
                 log[i].duty = FailsafeText /\ log[i].path = "failsafe"
            /\ (pc = "sleep" /\ fs_fault = "none") =>
                 /\ log = <<Entry(1, FailsafeText, "failsafe"),
                            Entry(2, FailsafeText, "failsafe")>>
                 /\ fan1 = <<FailsafeText>>
                 /\ fan2 = <<FailsafeText>>)
    /\ ((pc = "sleep" /\ fault \in ReadFaults) ~> (pc = "read_cpu" \/ ~RUNNING))

\* A tick ended by the failsafe writes after the memory read raised, with a
\* failsafe duty that the clamp had to cut.
C1_Witness ==
    /\ pc = "sleep" /\ fault = "read_mem" /\ fs_fault = "none"
    /\ Len(log) = 2
    /\ fan1 = <<FailsafeText>> /\ fan2 = <<FailsafeText>>
    /\ FailsafeText # cfg.failsafe_duty
    /\ RUNNING

\* A failsafe write to this fan was attempted in the current tick.
FailsafeAttempted(fan) ==
    \/ \E i \in 1..Len(log) : log[i].fan = fan /\ log[i].path = "failsafe"
    \/ fs_fault = (IF fan = 1 THEN "failsafe_fan1" ELSE "failsafe_fan2")

\* C2: a tick in which any step raised ends with a failsafe write attempted on
\* fan1 and on fan2, whether or not the other fan's failsafe write raised.
C2_FailsafeAttemptedOnEveryFan ==
    (pc = "sleep" /\ fault # "none") => FailsafeAttempted(1) /\ FailsafeAttempted(2)

\* C3: no raised read or write ends the process: a tick always reaches the
\* sleep, the loop is left only through its test with RUNNING false (status 0),
\* and every end of a tick, also one whose failsafe write raised, leads to a
\* further tick unless RUNNING has become false.
C3_FailuresNeverStopTheLoop ==
    /\ [][(pc \in TickPcs) => (pc' \in TickPcs \cup {"sleep"})]_vars
    /\ [][(pc = "sleep") => (pc' \in {"sleep", "while"})]_vars
    /\ [][(pc \in LoopPcs /\ pc' = "exited") =>
            (pc = "while" /\ ~RUNNING /\ exit_code' = <<0>>)]_vars
    /\ (pc \in TickPcs ~> pc = "sleep")
    /\ (pc = "sleep" ~> (pc = "read_cpu" \/ ~RUNNING))

\* A tick in which fan2's write raised and then the failsafe write raised too,
\* at its sleep with RUNNING still true.
C3_Witness ==
    /\ pc = "sleep" /\ fault = "write_fan2" /\ fs_fault = "failsafe_fan1"
    /\ RUNNING

\* A value written to an actuator, or held by one, lies in the duty bounds.
InBounds(duty) == cfg.min_duty <= duty /\ duty <= cfg.max_duty

\* C4: when min_duty <= max_duty, every value written to an actuator path (the
\* entries of the tick's log, normal and failsafe, and what fan1 and fan2 hold)
\* lies in [min_duty, max_duty], whatever the curves and the failsafe duty are.
C4_WrittenDutiesInBounds ==
    (cfg # <<>> /\ cfg.min_duty <= cfg.max_duty) =>
        /\ \A i \in 1..Len(log) : InBounds(log[i].duty)
        /\ fan1 # <<>> => InBounds(fan1[1])
        /\ fan2 # <<>> => InBounds(fan2[1])

\* A failsafe duty above max_duty was written to fan1 as max_duty, after a
\* curve duty below min_duty had been written as min_duty in the same tick.
C4_Witness ==
    /\ cfg # <<>> /\ cfg.min_duty <= cfg.max_duty
    /\ cfg.failsafe_duty > cfg.max_duty
    /\ pc = "failsafe_fan2" /\ fault = "write_fan2"
    /\ cpu_duty[1] < cfg.min_duty
    /\ log = <<Entry(1, cfg.min_duty, "normal"), Entry(1, cfg.max_duty, "failsafe")>>

\* C5: once RUNNING is false it stays false; the tick in flight runs on to its
\* sleep; after that tick nothing is written to an actuator; no tick begins;
\* and the loop reaches its exit with status 0.
C5_Shutdown ==
    /\ [][~RUNNING => ~RUNNING']_vars
    /\ [][(~RUNNING /\ pc \in TickPcs) => (pc' \in TickPcs \cup {"sleep"})]_vars
    /\ [][(~RUNNING /\ pc \notin TickPcs) => UNCHANGED <<fan1, fan2, log>>]_vars
    /\ [][(~RUNNING /\ pc # "read_cpu") => (pc' # "read_cpu")]_vars
    /\ ((~RUNNING /\ pc \in LoopPcs) ~> (pc = "exited" /\ exit_code = <<0>>))

\* The process has returned 0 after a signal; its last tick wrote both fans.
C5_Witness ==
    /\ pc = "exited" /\ exit_code = <<0>> /\ ~RUNNING
    /\ Len(log) = 2 /\ fault = "none"

\* Resolve has run: the configuration is loaded and line 210 is behind.
Resolved == cfg # <<>> /\ pc # "resolve"

\* C6: the loop is entered only with two non-empty sensor groups; an empty
\* memory resolution with mem_fallback_to_cpu set makes the memory group the
\* resolved CPU group; an empty CPU resolution, or an empty memory resolution
\* without the flag, ends the process with a non-zero status and no actuator
\* write.
C6_StartupFallback ==
    /\ pc \in LoopPcs => (cpu_hwmons # <<>> /\ mem_hwmons # <<>>)
    /\ Resolved =>
         LET cpu == resolve_hwmons(cfg.cpu_sensor_names, name_files)
             mem == resolve_hwmons(cfg.mem_sensor_names, name_files)
         IN IF cpu = <<>> \/ (mem = <<>> /\ ~cfg.mem_fallback_to_cpu)
            THEN /\ pc = "exited" /\ exit_code # <<>> /\ exit_code[1] # 0
                 /\ fan1 = <<>> /\ fan2 = <<>> /\ log = <<>>
            ELSE /\ cpu_hwmons = cpu
                 /\ mem_hwmons = (IF mem = <<>> THEN cpu ELSE mem)

\* The loop runs on the CPU group for both channels: no memory sensor was
\* found and the fallback applied.
C6_Witness ==
    /\ pc = "read_mem"
    /\ resolve_hwmons(cfg.mem_sensor_names, name_files) = <<>>
    /\ cfg.mem_fallback_to_cpu
    /\ mem_hwmons = cpu_hwmons /\ cpu_hwmons # <<>>

\* The configuration file was read and holds its tables.
FileLoaded == pc \notin {"install", "load_config"} /\ toml.exists /\ toml.parses

\* The temperatures of a curve rise strictly from point to point.
RisingTemps(points) ==
    \A i \in 1..(Len(points) - 1) : FLt(points[i][1], points[i + 1][1])

\* A raw curve that is to be rejected: empty, or a neighbour pair whose second
\* temperature is equal or lower.
EmptyOrNotRising(raw) ==
    \/ raw = <<>>
    \/ WellFormed(raw) /\ \E i \in 1..(Len(raw) - 1) : FLe(raw[i + 1][1], raw[i][1])

\* The points of a raw curve in their given order, each duty as int() gives it.
InGivenOrder(raw) == [i \in 1..Len(raw) |-> <<raw[i][1], IntOfTenths(raw[i][2])>>]

\* C9: a curve of the configuration file that is empty or whose temperatures
\* are not strictly increasing ends the start with an error (no configuration,
\* status 1); an accepted curve is the file's points in the given order; and so
\* every curve of a loaded configuration, the only ones the loop evaluates, is
\* non-empty with strictly increasing temperatures.
C9_CurvesValidated ==
    /\ FileLoaded =>
         \A key \in {toml.curves.cpu, toml.curves.mem} :
            (key # Absent /\ EmptyOrNotRising(key[1])) =>
                (cfg = <<>> /\ pc = "exited" /\ exit_code = <<1>>)
    /\ (FileLoaded /\ cfg # <<>>) =>
         /\ toml.curves.cpu # Absent => cfg.cpu_curve = InGivenOrder(toml.curves.cpu[1])
         /\ toml.curves.mem # Absent => cfg.mem_curve = InGivenOrder(toml.curves.mem[1])
    /\ pc \in LoopPcs => cfg # <<>>
    /\ cfg # <<>> =>
         \A curve \in {cfg.cpu_curve, cfg.mem_curve} :
            Len(curve) >= 1 /\ RisingTemps(curve)

\* clamp(lerp_curve(temperature, curve), min_duty, max_duty) of a sampled temperature.
CurveText(t, curve) == clamp_duty(lerp_curve(t[1], curve), cfg.min_duty, cfg.max_duty)

\* C10: a tick whose reads and writes all succeeded ends with fan1 and fan2
\* written once each, with the clamped curve duty of the temperature sampled in
\* that tick on their own channel, whether or not failsafe ticks came before.
C10_NoStateLeftByFailsafe ==
    (pc = "sleep" /\ fault = "none") =>
        /\ log = <<Entry(1, CurveText(cpu_t, cfg.cpu_curve), "normal"),
                   Entry(2, CurveText(mem_t, cfg.mem_curve), "normal")>>
        /\ fan1 = <<CurveText(cpu_t, cfg.cpu_curve)>>
        /\ fan2 = <<CurveText(mem_t, cfg.mem_curve)>>

\* A tick without failure ends after an earlier tick took the failsafe branch,
\* and the fans hold curve duties that differ from the failsafe duty.
C10_Witness ==
    /\ pc = "sleep" /\ fault = "none" /\ had_failsafe
    /\ fan1 # <<FailsafeText>> /\ fan2 # <<FailsafeText>>
    /\ fan1 # fan2

\* Every source of the group has gone away.
AllGone(hwmon_paths) == \A i \in 1..Len(hwmon_paths) : ~present[hwmon_paths[i]]

\* C13: while the loop runs, whatever sources come and go, no step changes
\* cpu_hwmons or mem_hwmons and none goes back to the enumeration of lines
\* 210-211; a read of a group whose sources have all gone away raises into the
\* failsafe branch, and the process goes on.
C13_GroupsFixedAfterStartup ==
    /\ [][(pc \in LoopPcs) =>
            (UNCHANGED <<cpu_hwmons, mem_hwmons>> /\ pc' # "resolve")]_vars
    /\ [][(pc = "read_cpu" /\ AllGone(cpu_hwmons) /\ pc' # pc) =>
            (fault' = "read_cpu" /\ pc' = "failsafe_fan1")]_vars
    /\ [][(pc = "read_mem" /\ AllGone(mem_hwmons) /\ pc' # pc) =>
            (fault' = "read_mem" /\ pc' = "failsafe_fan1")]_vars
    /\ [][(pc \in TickPcs) => (pc' # "exited")]_vars

\* The only source of the CPU group went away after a tick that had read it:
\* the next read raised, the failsafe branch runs, the group is as it was.
C13_Witness ==
    /\ pc = "failsafe_fan1" /\ fault = "read_cpu"
    /\ cpu_t # <<>>
    /\ cpu_hwmons = <<1>> /\ ~present[1]
    /\ cpu_hwmons = resolve_hwmons(cfg.cpu_sensor_names, name_files)

\* The two failsafe writes, as the tick's log records them.
FailsafeEntries == <<Entry(1, FailsafeText, "failsafe"), Entry(2, FailsafeText, "failsafe")>>

\* C15: a tick in which a step of the try block raised and no failsafe write
\* raised ends with the two failsafe writes as its last writes and with
\* clamp(failsafe_duty, min_duty, max_duty) held by fan1 and by fan2; when the
\* step that raised is fan2's normal write, the curve duty written to fan1
\* before it is followed in the same tick by the failsafe duty on fan1.
C15_FailsafeOverwritesBothFans ==
    (pc = "sleep" /\ fault # "none" /\ fs_fault = "none") =>
        /\ fan1 = <<FailsafeText>> /\ fan2 = <<FailsafeText>>
        /\ Len(log) >= 2
        /\ SubSeq(log, Len(log) - 1, Len(log)) = FailsafeEntries
        /\ fault = "write_fan2" =>
             log = <<Entry(1, CurveText(cpu_t, cfg.cpu_curve), "normal")>> \o FailsafeEntries

\* fan1 got a curve duty, fan2's write raised, and the failsafe duty, another
\* value, replaced the curve duty on fan1 in the same tick.
C15_Witness ==
    /\ pc = "sleep" /\ fault = "write_fan2" /\ fs_fault = "none"
    /\ Len(log) = 3
    /\ log[1].fan = 1 /\ log[1].path = "normal" /\ log[1].duty # FailsafeText
    /\ fan1 = <<FailsafeText>> /\ fan2 = <<FailsafeText>>

\* The statements of the try block that follow the two reads.
AfterReads == {"lerp", "write_fan1", "write_fan2"}

\* A step that adds a normal write of this fan to the tick's log.
NormalWrite(fan) ==
    /\ Len(log') = Len(log) + 1
    /\ log'[Len(log')].fan = fan
    /\ log'[Len(log')].path = "normal"

\* C16: a normal write is made by line 234 or 235 only, which a tick reaches
\* only from the read of the memory channel having returned, itself reached
\* only from the read of the CPU channel having returned; fan2's normal write
\* follows fan1's normal write of the same tick; and a tick in which a read
\* raised holds no normal write, so fan1 gets no curve duty in it.
C16_NormalWritesAfterBothReads ==
    /\ [][NormalWrite(1) => (pc = "write_fan1" /\ fault = "none" /\ log = <<>>)]_vars
    /\ [][NormalWrite(2) =>
            (/\ pc = "write_fan2" /\ fault = "none"
             /\ log = <<Entry(1, CurveText(cpu_t, cfg.cpu_curve), "normal")>>)]_vars
    /\ [][(pc' \in AfterReads /\ pc' # pc) =>
            \/ pc = "read_mem" /\ mem_t' # <<>> /\ fault' = "none"
            \/ pc \in AfterReads /\ fault' = "none"]_vars
    /\ [][(pc' = "read_mem" /\ pc' # pc) =>
            (pc = "read_cpu" /\ cpu_t' # <<>> /\ fault' = "none")]_vars
    /\ [][(fault' \in ReadFaults) =>
            \A i \in 1..Len(log') : log'[i].path # "normal"]_vars

\* The read of the memory channel raised after the CPU channel had been read:
\* the tick ended with the failsafe writes alone.
C16_Witness ==
    /\ pc = "sleep" /\ fault = "read_mem" /\ cpu_t # <<>>
    /\ log = FailsafeEntries

\* The handlers are installed and no tick has begun: a tick that begins either
\* assigns cpu_t or takes the failsafe branch.
NoTickYet ==
    /\ pc \in {"load_config", "resolve", "while"}
    /\ cpu_t = <<>> /\ ~had_failsafe

NothingWritten == fan1 = <<>> /\ fan2 = <<>> /\ log = <<>>

\* C17: nothing is written to an actuator before the first tick; with RUNNING
\* false before the loop's first test no tick begins and nothing is written,
\* the start ends the process, and a start that reached the loop's test ends it
\* with status 0 and no actuator written; and the step that leaves the loop
\* writes no actuator in any run, so each fan keeps the last duty written.
C17_SignalBeforeFirstCheck ==
    /\ [](NoTickYet => NothingWritten)
    /\ [][(~RUNNING /\ NoTickYet) =>
            (pc' # "read_cpu" /\ UNCHANGED <<fan1, fan2, log>>)]_vars
    /\ [][(pc = "exited" \/ pc' = "exited") => UNCHANGED <<fan1, fan2, log>>]_vars
    /\ ((~RUNNING /\ NoTickYet) ~> (pc = "exited" /\ NothingWritten))
    /\ ((~RUNNING /\ NoTickYet /\ pc = "while") ~>
            (pc = "exited" /\ exit_code = <<0>> /\ NothingWritten))

\* The signal came while the configuration was loaded; the start succeeded and
\* the process returned 0 without a tick and without a write.
C17_Witness ==
    /\ pc = "exited" /\ exit_code = <<0>> /\ ~RUNNING
    /\ cfg # <<>> /\ cpu_hwmons # <<>>
    /\ cpu_t = <<>> /\ ~had_failsafe
    /\ NothingWritten

(* ------------------------------------------------------------------ *)
(* The curve functions applied to bounded inputs.                      *)
(* ------------------------------------------------------------------ *)

CurveInit ==
    /\ fn_raw \in RawCurves
    /\ fn_temp \in TempGrid \cup ExampleTemps
    /\ fn_curve = NotCalled
    /\ fn_duty = NotCalled
    /\ fn_args = <<>> /\ fn_result = NotCalled
    /\ toml = [exists |-> FALSE]
    /\ AllPresent
    /\ name_files = [i \in 1..Len(Hwmons) |-> NoNameFile]
    /\ ProcInit

CallParseCurve ==
    /\ fn_curve = NotCalled
    /\ fn_curve' = parse_curve(fn_raw)
    /\ UNCHANGED <<fn_raw, fn_temp, fn_duty, fn_args, fn_result, envvars, procvars>>

CallLerpCurve ==
    /\ fn_curve.tag = "return"
    /\ fn_duty = NotCalled
    /\ fn_duty' = Returned(lerp_curve(fn_temp, fn_curve.val))
    /\ UNCHANGED <<fn_raw, fn_temp, fn_curve, fn_args, fn_result, envvars, procvars>>

CurveNext == CallParseCurve \/ CallLerpCurve

CurveSpec == CurveInit /\ [][CurveNext]_vars

(* ------------------------------------------------------------------ *)
(* Properties of the curve functions.                                  *)
(* ------------------------------------------------------------------ *)

EvalTemps == TempGrid \cup ExampleTemps

NonDecreasingDuties(curve) ==
    \A i \in 1..(Len(curve) - 1) : curve[i][2] <= curve[i + 1][2]

\* The duty is the first point's at and below the first temperature, the last
\* point's at and above the last one, and no higher temperature of EvalTemps
\* gets a lower duty, no lower one a higher duty.
MonotoneExactEnds(temp_c, duty, curve) ==
    LET n == Len(curve)
    IN /\ FLe(temp_c, curve[1][1]) => duty = curve[1][2]
       /\ FGe(temp_c, curve[n][1]) => duty = curve[n][2]
       /\ NonDecreasingDuties(curve) =>
            \A t2 \in EvalTemps :
                /\ temp_c <= t2 => duty <= lerp_curve(t2, curve)
                /\ t2 <= temp_c => lerp_curve(t2, curve) <= duty

\* C7: on every curve parse_curve returns, lerp_curve gives the first point's
\* duty at and below the first temperature and the last point's duty at and
\* above the last one, and, when the duties are non-decreasing, it is
\* non-decreasing in the temperature.
C7_LerpMonotoneExactEnds ==
    fn_duty.tag = "return" => MonotoneExactEnds(fn_temp, fn_duty.val, fn_curve.val)

\* The same on the curves whose temperatures are strictly increasing, which
\* leaves out the curves with a nan temperature that parse_curve lets through.
C7_OnRisingTemps ==
    (fn_duty.tag = "return" /\ RisingTemps(fn_curve.val)) =>
        MonotoneExactEnds(fn_temp, fn_duty.val, fn_curve.val)

\* The exact interpolant on segment i is SegNum / SegDen.
SegNum(curve, i, temp_c) ==
    curve[i][2] * (curve[i + 1][1] - curve[i][1])
        + (temp_c - curve[i][1]) * (curve[i + 1][2] - curve[i][2])
SegDen(curve, i) == curve[i + 1][1] - curve[i][1]

Abs(x) == IF x >= 0 THEN x ELSE -x

\* duty is an integer nearest to num / den; num / den lies halfway between two.
Nearest(duty, num, den) == 2 * Abs(duty * den - num) <= den
Halfway(duty, num, den) == 2 * Abs(duty * den - num) = den

\* The segments that bracket a temperature strictly inside the curve's domain.
Bracketing(curve, temp_c) ==
    IF FLt(curve[1][1], temp_c) /\ FLt(temp_c, curve[Len(curve)][1])
    THEN {i \in 1..(Len(curve) - 1) :
            FLe(curve[i][1], temp_c) /\ FLe(temp_c, curve[i + 1][1])}
    ELSE {}

\* 47.5 degrees on the segment (40,20)-(55,35).
MidpointExample(curve, temp_c) ==
    /\ temp_c = 47500
    /\ \E i \in 1..(Len(curve) - 1) :
         curve[i] = <<40000, 20>> /\ curve[i + 1] = <<55000, 35>>

\* C8 as stated: inside the domain the result is the interpolant rounded to the
\* nearest integer, a value halfway between two integers away from zero, and
\* the midpoint example gives 28.
C8_TiesAwayFromZero ==
    fn_duty.tag = "return" =>
        LET curve == fn_curve.val
        IN /\ \A i \in Bracketing(curve, fn_temp) :
                LET num == SegNum(curve, i, fn_temp)
                    den == SegDen(curve, i)
                IN /\ Nearest(fn_duty.val, num, den)
                   /\ Halfway(fn_duty.val, num, den) =>
                        Abs(fn_duty.val * den) > Abs(num)
           /\ MidpointExample(curve, fn_temp) => fn_duty.val = 28

\* C8 as amended: inside the domain the result is the interpolant rounded to
\* the nearest integer, a value halfway between two integers to the even one,
\* and the midpoint example gives 28.
C8_TiesToEven ==
    fn_duty.tag = "return" =>
        LET curve == fn_curve.val
        IN /\ \A i \in Bracketing(curve, fn_temp) :
                LET num == SegNum(curve, i, fn_temp)
                    den == SegDen(curve, i)
                IN /\ Nearest(fn_duty.val, num, den)
                   /\ Halfway(fn_duty.val, num, den) => fn_duty.val % 2 = 0
           /\ MidpointExample(curve, fn_temp) => fn_duty.val = 28

\* 42.5 degrees on (40,20)-(45,33): the interpolant 26.5 became 26.
C8_Witness ==
    /\ fn_duty.tag = "return"
    /\ fn_curve.val = << <<40000, 20>>, <<45000, 33>> >>
    /\ fn_temp = 42500
    /\ Halfway(fn_duty.val, SegNum(fn_curve.val, 1, fn_temp), SegDen(fn_curve.val, 1))
    /\ fn_duty.val = 26

\* duty lies between the duties of points i and j, whichever is larger.
Between(duty, curve, i, j) ==
    /\ Min2(curve[i][2], curve[j][2]) <= duty
    /\ duty <= Max2(curve[i][2], curve[j][2])

\* The duty is within the curve's duties and within those of every bracketing
\* segment, and lerp_curve did not end at line 172.
WithinDuties(temp_c, duty, curve) ==
    /\ \E i \in 1..Len(curve) : curve[i][2] <= duty
    /\ \E i \in 1..Len(curve) : duty <= curve[i][2]
    /\ \A i \in Bracketing(curve, temp_c) : Between(duty, curve, i, i + 1)
    /\ ~FallbackReached(temp_c, curve)

\* C18: on a curve with strictly increasing temperatures lerp_curve returns,
\* for every temperature, a duty that is neither below the smallest nor above
\* the largest duty of the curve's points; for a temperature inside the domain
\* the duty lies between the two duties of every segment that brackets it;
\* and the return of line 172 is not reached.
C18_LerpWithinDuties ==
    (fn_duty.tag = "return" /\ RisingTemps(fn_curve.val)) =>
        WithinDuties(fn_temp, fn_duty.val, fn_curve.val)

\* The same on the curves that hold no nan temperature, which leaves out the
\* one-point curve [(nan, duty)] that parse_curve lets through.
C18_OnNumericTemps ==
    (/\ fn_duty.tag = "return"
     /\ RisingTemps(fn_curve.val)
     /\ \A i \in 1..Len(fn_curve.val) : fn_curve.val[i][1] # NaN) =>
        WithinDuties(fn_temp, fn_duty.val, fn_curve.val)

(* ------------------------------------------------------------------ *)
(* resolve_hwmons applied to bounded inputs.                           *)
(* ------------------------------------------------------------------ *)

\* The logical names a configuration lists; no source is called nct6775.
LogicalNames == SensorNames \cup {"nct6775"}
NameLists == SeqsUpTo(LogicalNames, MaxNames)

\* No daemon runs and no curve function is called.
CurveIdle ==
    /\ fn_raw = <<>> /\ fn_temp = 0
    /\ fn_curve = NotCalled /\ fn_duty = NotCalled

ResolveInit ==
    /\ fn_args \in [sensor_names : NameLists]
    /\ fn_result = NotCalled
    /\ name_files \in NameFiles
    /\ toml = [exists |-> FALSE]
    /\ AllPresent
    /\ CurveIdle
    /\ ProcInit

CallResolveHwmons ==
    /\ fn_result = NotCalled
    /\ fn_result' = Returned(resolve_hwmons(fn_args.sensor_names, name_files))
    /\ UNCHANGED <<fn_raw, fn_curve, fn_temp, fn_duty, fn_args, envvars, procvars>>

ResolveNext == CallResolveHwmons

ResolveSpec == ResolveInit /\ [][ResolveNext]_vars

\* The place of a source in the enumeration, and the first of the given names
\* that its name file matches.
PlaceOf(hwmon) == CHOOSE i \in 1..Len(Hwmons) : Hwmons[i] = hwmon
MatchingNames(hwmon, sensor_names) ==
    {k \in 1..Len(sensor_names) : name_files[PlaceOf(hwmon)] = sensor_names[k]}
FirstName(hwmon, sensor_names) ==
    CHOOSE k \in MatchingNames(hwmon, sensor_names) :
        \A m \in MatchingNames(hwmon, sensor_names) : k <= m

\* C11: resolve_hwmons returns, without an error, the sources whose name is
\* one of the given names, each exactly once, ordered by the first name that
\* matches them and then by their place in the enumeration; a name that
\* matches no source adds nothing.
C11_ResolveDedupFirstSeen ==
    fn_result # NotCalled =>
        /\ fn_result.tag = "return"
        /\ LET names == fn_args.sensor_names
               found == fn_result.val
           IN /\ \A i, j \in 1..Len(found) : found[i] = found[j] => i = j
              /\ \A p \in 1..Len(Hwmons) :
                    InSeq(Hwmons[p], found) <=> MatchingNames(Hwmons[p], names) # {}
              /\ \A i, j \in 1..Len(found) :
                    i < j =>
                        \/ FirstName(found[i], names) < FirstName(found[j], names)
                        \/ /\ FirstName(found[i], names) = FirstName(found[j], names)
                           /\ PlaceOf(found[i]) < PlaceOf(found[j])

\* Two sources named k10temp, resolved for k10temp, a name without a source,
\* and k10temp again: each source once, in enumeration order.
C11_Witness ==
    /\ fn_result # NotCalled
    /\ fn_args.sensor_names = <<"k10temp", "nct6775", "k10temp">>
    /\ name_files = [i \in 1..Len(Hwmons) |-> "k10temp"]
    /\ fn_result = Returned(<<1, 2>>)

(* ------------------------------------------------------------------ *)
(* max_temp_in_hwmons applied to bounded inputs.                       *)
(* ------------------------------------------------------------------ *)

\* A group of sources, and the temp*_input files glob finds under each source.
Groups == SeqsUpTo({Hwmons[i] : i \in 1..Len(Hwmons)}, Len(Hwmons))
InputLists == [1..Len(Hwmons) -> SeqsUpTo(InputFiles, MaxInputs)]

MaxTempInit ==
    /\ fn_args \in [hwmon_paths : Groups, inputs : InputLists]
    /\ fn_result = NotCalled
    /\ name_files = TypicalNames
    /\ toml = [exists |-> FALSE]
    /\ AllPresent
    /\ CurveIdle
    /\ ProcInit

CallMaxTempInHwmons ==
    /\ fn_result = NotCalled
    /\ fn_result' = max_temp_in_hwmons(fn_args.hwmon_paths, fn_args.inputs)
    /\ UNCHANGED <<fn_raw, fn_curve, fn_temp, fn_duty, fn_args, envvars, procvars>>

MaxTempNext == CallMaxTempInHwmons

MaxTempSpec == MaxTempInit /\ [][MaxTempNext]_vars

\* The inputs of the group that hold an integer: <<place in the group, file>>.
ParsedInputs(hwmon_paths, inputs) ==
    {<<i, j>> \in (1..Len(hwmon_paths)) \X (1..MaxInputs + 1) :
        /\ j <= Len(inputs[hwmon_paths[i]])
        /\ inputs[hwmon_paths[i]][j].tag = "int"}

\* C12: max_temp_in_hwmons fails exactly when no input of the group's sources
\* was read and parsed; otherwise it returns the temperature of one parsed
\* input that no other parsed input of the group exceeds, the unreadable and
\* malformed inputs being passed over.
C12_MaxOfParsedInputs ==
    fn_result # NotCalled =>
        LET paths == fn_args.hwmon_paths
            inputs == fn_args.inputs
            parsed == ParsedInputs(paths, inputs)
        IN /\ fn_result.tag = "raise" <=> parsed = {}
           /\ fn_result.tag = "return" =>
                /\ \E p \in parsed : inputs[paths[p[1]]][p[2]].val = fn_result.val
                /\ \A p \in parsed : inputs[paths[p[1]]][p[2]].val <= fn_result.val

\* The first source holds 90.0 degrees and a malformed input, the second one
\* 42.5 degrees: the sample is 90.0.
C12_Witness ==
    /\ fn_result # NotCalled
    /\ fn_args.hwmon_paths = <<1, 2>>
    /\ fn_args.inputs[1] = <<[tag |-> "int", val |-> 90000], [tag |-> "bad", val |-> 0]>>
    /\ fn_args.inputs[2] = <<[tag |-> "int", val |-> 42500]>>
    /\ fn_result = Returned(90000)

(* ------------------------------------------------------------------ *)
(* clamp_duty applied to bounded inputs.                               *)
(* ------------------------------------------------------------------ *)

ClampRange == (0 - MaxClampAbs)..MaxClampAbs

ClampInit ==
    /\ fn_args \in [duty : ClampRange, min_duty : ClampRange, max_duty : ClampRange]
    /\ fn_result = NotCalled
    /\ name_files = TypicalNames
    /\ toml = [exists |-> FALSE]
    /\ AllPresent
    /\ CurveIdle
    /\ ProcInit

\* clamp_duty(duty, min_duty, max_duty); fn_result lists the results so far.
CallClampDuty ==
    /\ fn_result = NotCalled
    /\ fn_result' = Returned(<<clamp_duty(fn_args.duty, fn_args.min_duty, fn_args.max_duty)>>)
    /\ UNCHANGED <<fn_raw, fn_curve, fn_temp, fn_duty, fn_args, envvars, procvars>>

\* clamp_duty of the first call's result, with the same bounds.
CallClampDutyAgain ==
    /\ fn_result # NotCalled
    /\ Len(fn_result.val) = 1
    /\ fn_result' = Returned(Append(fn_result.val,
                        clamp_duty(fn_result.val[1], fn_args.min_duty, fn_args.max_duty)))
    /\ UNCHANGED <<fn_raw, fn_curve, fn_temp, fn_duty, fn_args, envvars, procvars>>

ClampNext == CallClampDuty \/ CallClampDutyAgain

ClampSpec == ClampInit /\ [][ClampNext]_vars

\* C14: clamp_duty applied to its own result, with the same bounds, returns
\* that result; and when min_duty <= max_duty every result lies in
\* [min_duty, max_duty].
C14_ClampIdempotentInBounds ==
    fn_result # NotCalled =>
        /\ Len(fn_result.val) = 2 => fn_result.val[2] = fn_result.val[1]
        /\ fn_args.min_duty <= fn_args.max_duty =>
             \A i \in 1..Len(fn_result.val) :
                fn_args.min_duty <= fn_result.val[i] /\ fn_result.val[i] <= fn_args.max_duty

\* A duty above max_duty was cut to max_duty, and cut again to the same value.
C14_Witness ==
    /\ fn_result # NotCalled
    /\ fn_args.min_duty < fn_args.max_duty
    /\ fn_args.duty > fn_args.max_duty
    /\ fn_result.val = <<fn_args.max_duty, fn_args.max_duty>>

====
